---------------------------- MODULE Spec2Model ----------------------------
(***************************************************************************)
(* Relaxed FIFO queue simulations: the d-choice relaxed queue              *)
(* (src/src/d_choice_queue.rs), the strict reference queue and the two     *)
(* analysis drivers analyze_simple / analyze_extra                         *)
(* (src/src/relaxation_simulation.rs), and analyze_distributions           *)
(* (src/src/relaxation_analysis.rs).                                       *)
(*                                                                         *)
(* Shard indices are 0-based as in the source.  Option::None is the value  *)
(* None (-1); items are usize enqueue numbers, so never negative.          *)
(***************************************************************************)
EXTENDS Integers, Sequences, FiniteSets, TLC

\* ---- bounds of the model ----
MaxShards == 2
MaxD == 2
MaxPrefill == 2
MaxOps == 4
SymPrefill == 6
SymOps == 8
DistOps == 2
TrackerOps == 6
ScanShards == 3
ScanOps == 3

None == -1

VARIABLES
    subqueues,            \* DChoiceQueue.subqueues: 0..n-1 -> [head, tail, fifo]
    d,                    \* DChoiceQueue.d
    uniques,              \* DChoiceQueue.uniques
    progress_heuristic,   \* DChoiceQueue.progress_heuristic
    empty_lin,            \* DChoiceQueue.empty_lin
    inds,                 \* the vector last returned by subqueue_inds()
    subqueue_ind,         \* the index last selected by the heuristic
    strict_queue,         \* StrictQueue: [deque, len]
    driver,               \* which driver runs: "simple" or "extra"
    prefill,              \* the driver's prefill argument
    n_ops,                \* operations.len(), the length of the script
    item,                 \* the prefill loop counter
    operations,           \* the part of the operations script replayed so far
    enq_nbr,              \* the driver's enq_nbr
    deq_nbr,              \* analyze_extra's deq_nbr
    rank_errors,          \* analyze_simple's rank_errors
    error_tags,           \* analyze_extra's error_tags
    fatal,                \* "none", or the message of the panic that aborted the run
    extra_ops,            \* analyze_distributions' extra_ops (0 under the other drivers)
    distributions         \* << what analyze_distributions returned >>, << >> before it returns

vars == << subqueues, d, uniques, progress_heuristic, empty_lin, inds,
           subqueue_ind, strict_queue, driver, prefill, n_ops, item, operations,
           enq_nbr, deq_nbr, rank_errors, error_tags, fatal, extra_ops,
           distributions >>

\* ------------------------------------------------------------------------
\* SubQueue (d_choice_queue.rs:176-207)
\* ------------------------------------------------------------------------
SubQueue_new == [head |-> 0, tail |-> 0, fifo |-> << >>]

\* faulty variant of SubQueue_enqueue: tail is not incremented
SubQueue_enqueue_keeps_tail(q, it) ==
    [head |-> q.head, tail |-> q.tail, fifo |-> Append(q.fifo, it)]

SubQueue_enqueue(q, it) ==
    [head |-> q.head, tail |-> q.tail + 1, fifo |-> Append(q.fifo, it)]

\* faulty variant of SubQueue_dequeue: head is incremented on an empty pop too
SubQueue_dequeue_counts_empty(q) ==
    IF q.fifo = << >>
    THEN [q |-> [head |-> q.head + 1, tail |-> q.tail, fifo |-> q.fifo],
          ret |-> None]
    ELSE [q   |-> [head |-> q.head + 1, tail |-> q.tail, fifo |-> Tail(q.fifo)],
          ret |-> Head(q.fifo)]

\* faulty variant of SubQueue_dequeue: the newest item is popped (pop_back)
SubQueue_dequeue_pops_back(q) ==
    IF q.fifo = << >>
    THEN [q |-> q, ret |-> None]
    ELSE [q   |-> [head |-> q.head + 1, tail |-> q.tail,
                   fifo |-> SubSeq(q.fifo, 1, Len(q.fifo) - 1)],
          ret |-> q.fifo[Len(q.fifo)]]

\* faulty variant of SubQueue_dequeue: the front item is returned and left in
\* the fifo (front() for pop_front())
SubQueue_dequeue_peeks(q) ==
    IF q.fifo = << >>
    THEN [q |-> q, ret |-> None]
    ELSE [q   |-> [head |-> q.head + 1, tail |-> q.tail, fifo |-> q.fifo],
          ret |-> Head(q.fifo)]

\* returns the sub-queue after the call and the Option returned
SubQueue_dequeue(q) ==
    IF q.fifo = << >>
    THEN [q |-> q, ret |-> None]
    ELSE [q   |-> [head |-> q.head + 1, tail |-> q.tail, fifo |-> Tail(q.fifo)],
          ret |-> Head(q.fifo)]

SubQueue_len(q) == Len(q.fifo)

\* ------------------------------------------------------------------------
\* DChoiceQueue (d_choice_queue.rs:24-162)
\* ------------------------------------------------------------------------
DChoiceQueue_new(n) == [i \in 0..(n - 1) |-> SubQueue_new]

nbr_subqueues == Cardinality(DOMAIN subqueues)

\* faulty variant of choose_multiple: the elements are drawn with replacement
choose_multiple_with_repeats(n, amount) ==
    LET k == IF amount < n THEN amount ELSE n
    IN  [1..k -> 0..(n - 1)]

\* slice::choose_multiple(rng, amount): min(amount, len) distinct elements,
\* in an order the generator decides
choose_multiple(n, amount) ==
    LET k == IF amount < n THEN amount ELSE n
    IN  {s \in [1..k -> 0..(n - 1)] : \A i, j \in 1..k : i # j => s[i] # s[j]}

\* every vector subqueue_inds() can return
subqueue_inds ==
    IF uniques
    THEN choose_multiple(nbr_subqueues, d)
    ELSE [1..d -> 0..(nbr_subqueues - 1)]

\* the panic a call of enqueue() / dequeue() / dequeue_with_info() ends in
\* whatever the generator draws: gen_range(0..0) panics when d draws are made
\* from no sub-queue; otherwise subqueue_inds() is empty when d = 0 or there
\* is no sub-queue, min_by_key / max_by_key give None and expect() panics
queue_panic ==
    IF ~uniques /\ d > 0 /\ nbr_subqueues = 0
    THEN "cannot sample empty range"
    ELSE IF d = 0 \/ nbr_subqueues = 0
    THEN "Should always be able to find an index if d>0"
    ELSE "none"

\* Iterator::min_by_key: the first element with the minimum key; key is the
\* closure, as a function of the sub-queue index
min_by_key(s, key) ==
    s[CHOOSE i \in DOMAIN s :
        \A j \in DOMAIN s :
            \/ key[s[j]] > key[s[i]]
            \/ key[s[j]] = key[s[i]] /\ j >= i]

\* Iterator::max_by_key: the last element with the maximum key
max_by_key(s, key) ==
    s[CHOOSE i \in DOMAIN s :
        \A j \in DOMAIN s :
            \/ key[s[j]] < key[s[i]]
            \/ key[s[j]] = key[s[i]] /\ j <= i]

\* the index enqueue() selects from the sampled indices
enqueue_ind(sqs, s) ==
    IF progress_heuristic
    THEN min_by_key(s, [i \in DOMAIN sqs |-> sqs[i].tail])
    ELSE min_by_key(s, [i \in DOMAIN sqs |-> sqs[i].tail - sqs[i].head])

\* faulty variant of dequeue_ind: the length heuristic takes the shortest
\* sub-queue, as enqueue does
dequeue_ind_shortest(sqs, s) ==
    IF progress_heuristic
    THEN min_by_key(s, [i \in DOMAIN sqs |-> sqs[i].head])
    ELSE min_by_key(s, [i \in DOMAIN sqs |-> sqs[i].tail - sqs[i].head])

\* the index dequeue() / dequeue_with_info() selects from the sampled indices
dequeue_ind(sqs, s) ==
    IF progress_heuristic
    THEN min_by_key(s, [i \in DOMAIN sqs |-> sqs[i].head])
    ELSE max_by_key(s, [i \in DOMAIN sqs |-> sqs[i].tail - sqs[i].head])

\* faulty variant of DChoiceQueue_enqueue: the item goes to the first sampled index
DChoiceQueue_enqueue_first_sampled(sqs, s, it) ==
    [sqs EXCEPT ![s[1]] = SubQueue_enqueue(@, it)]

DChoiceQueue_enqueue(sqs, s, it) ==
    LET ind == enqueue_ind(sqs, s)
    IN  [sqs EXCEPT ![ind] = SubQueue_enqueue(@, it)]

\* faulty variant of fallback_ind: the scan stops one sub-queue short
fallback_ind_one_short(sqs, c) ==
    LET n    == Cardinality(DOMAIN sqs)
        hits == {k \in 1..(n - 2) : SubQueue_len(sqs[(c + k) % n]) > 0}
    IN  IF hits = {} THEN None
        ELSE (c + (CHOOSE k \in hits : \A m \in hits : k <= m)) % n

\* faulty variant of fallback_ind: the scan goes down, c-1, c-2, ... (mod n)
fallback_ind_backwards(sqs, c) ==
    LET n    == Cardinality(DOMAIN sqs)
        hits == {k \in 1..(n - 1) : SubQueue_len(sqs[(c + n - k) % n]) > 0}
    IN  IF hits = {} THEN None
        ELSE (c + n - (CHOOSE k \in hits : \A m \in hits : k <= m)) % n

\* the round-robin scan after an empty pop: the first non-empty sub-queue
\* among c+1, c+2, ..., c+n-1 (mod n), or None
fallback_ind(sqs, c) ==
    LET n    == Cardinality(DOMAIN sqs)
        hits == {k \in 1..(n - 1) : SubQueue_len(sqs[(c + k) % n]) > 0}
    IN  IF hits = {} THEN None
        ELSE (c + (CHOOSE k \in hits : \A m \in hits : k <= m)) % n

\* faulty variant of DChoiceQueue_dequeue: no scan after an empty pop
dequeue_never_scans(sqs, s) ==
    LET c     == dequeue_ind(sqs, s)
        first == SubQueue_dequeue(sqs[c])
    IN  [sqs |-> [sqs EXCEPT ![c] = first.q], ret |-> first.ret]

\* dequeue(): [sqs: the sub-queues after the call, ret: the Option returned]
DChoiceQueue_dequeue(sqs, s) ==
    LET c     == dequeue_ind(sqs, s)
        first == SubQueue_dequeue(sqs[c])
    IN  IF first.ret = None /\ empty_lin
        THEN LET ind == fallback_ind(sqs, c)
             IN  IF ind = None
                 THEN [sqs |-> sqs, ret |-> None]
                 ELSE [sqs |-> [sqs EXCEPT ![ind] = SubQueue_dequeue(@).q],
                       ret |-> SubQueue_dequeue(sqs[ind]).ret]
        ELSE [sqs |-> [sqs EXCEPT ![c] = first.q], ret |-> first.ret]

\* faulty variant of DChoiceQueue_dequeue_with_info: the scan runs whatever empty_lin is
dequeue_with_info_always_scans(sqs, s) ==
    LET c     == dequeue_ind(sqs, s)
        first == SubQueue_dequeue(sqs[c])
    IN  IF first.ret = None
        THEN LET ind == fallback_ind(sqs, c)
             IN  IF ind = None
                 THEN [sqs |-> sqs, ret |-> None, info |-> sqs[c].head]
                 ELSE [sqs  |-> [sqs EXCEPT ![ind] = SubQueue_dequeue(@).q],
                       ret  |-> SubQueue_dequeue(sqs[ind]).ret,
                       info |-> SubQueue_dequeue(sqs[ind]).q.head]
        ELSE [sqs |-> [sqs EXCEPT ![c] = first.q], ret |-> first.ret,
              info |-> first.q.head]

\* faulty variant of DChoiceQueue_dequeue_with_info: the usize is always read
\* from the selected sub-queue, after a scan too
dequeue_with_info_of_selected(sqs, s) ==
    LET c == dequeue_ind(sqs, s)
        r == DChoiceQueue_dequeue(sqs, s)
    IN  [sqs |-> r.sqs, ret |-> r.ret, info |-> r.sqs[c].head]

\* faulty variant of DChoiceQueue_dequeue_with_info: head is read before the pop
dequeue_with_info_head_before(sqs, s) ==
    LET c == dequeue_ind(sqs, s)
        r == DChoiceQueue_dequeue(sqs, s)
        served == {i \in DOMAIN sqs : r.sqs[i] # sqs[i]}
    IN  [sqs |-> r.sqs, ret |-> r.ret,
         info |-> IF served = {} THEN sqs[c].head
                  ELSE sqs[CHOOSE i \in served : TRUE].head]

\* dequeue_with_info(): as dequeue(), with the usize returned beside the Option
DChoiceQueue_dequeue_with_info(sqs, s) ==
    LET c     == dequeue_ind(sqs, s)
        first == SubQueue_dequeue(sqs[c])
    IN  IF first.ret = None /\ empty_lin
        THEN LET ind == fallback_ind(sqs, c)
             IN  IF ind = None
                 THEN [sqs |-> sqs, ret |-> None, info |-> sqs[c].head]
                 ELSE [sqs  |-> [sqs EXCEPT ![ind] = SubQueue_dequeue(@).q],
                       ret  |-> SubQueue_dequeue(sqs[ind]).ret,
                       info |-> SubQueue_dequeue(sqs[ind]).q.head]
        ELSE [sqs |-> [sqs EXCEPT ![c] = first.q], ret |-> first.ret,
              info |-> first.q.head]

\* ------------------------------------------------------------------------
\* StrictQueue (relaxation_simulation.rs:141-193)
\* ------------------------------------------------------------------------
StrictQueue_new == [deque |-> << >>, len |-> 0]

\* faulty variant of StrictQueue_enqueue: len is not incremented
StrictQueue_enqueue_keeps_len(sq, it) ==
    [deque |-> Append(sq.deque, <<it, TRUE>>), len |-> sq.len]

\* faulty variant of StrictQueue_enqueue: the entry is pushed at the front
StrictQueue_enqueue_push_front(sq, it) ==
    [deque |-> << <<it, TRUE>> >> \o sq.deque, len |-> sq.len + 1]

StrictQueue_enqueue(sq, it) ==
    [deque |-> Append(sq.deque, <<it, TRUE>>), len |-> sq.len + 1]

\* faulty variant of StrictQueue_len: the stored entries are counted, dead ones too
StrictQueue_len_of_deque(sq) == Len(sq.deque)

StrictQueue_len(sq) == sq.len

\* faulty variant of pop_dead: dead entries are left at the front
pop_dead_keeps(dq) == dq

\* faulty variant of pop_dead: at most one dead entry is popped
pop_dead_one(dq) ==
    IF dq # << >> /\ ~Head(dq)[2] THEN Tail(dq) ELSE dq

\* the loop of lines 168-173: pop the entries marked false off the front
RECURSIVE pop_dead(_)
pop_dead(dq) ==
    IF dq # << >> /\ ~Head(dq)[2] THEN pop_dead(Tail(dq)) ELSE dq

\* the scan of lines 176-185: the position of the first entry holding it, or 0
find_item(dq, it) ==
    IF \E i \in DOMAIN dq : dq[i][1] = it
    THEN CHOOSE i \in DOMAIN dq :
            /\ dq[i][1] = it
            /\ \A j \in 1..(i - 1) : dq[j][1] # it
    ELSE 0

\* faulty variant of scan_rank: the scan counts every entry it passes, dead ones too
scan_rank_counts_dead(dq, pos) == pos - 1

\* rank_error as the scan has counted it when it reaches position pos
scan_rank(dq, pos) == Cardinality({j \in 1..(pos - 1) : dq[j][2]})

\* faulty variant of relaxed_dequeue: the front is not looked at, the item is
\* always found by the scan and marked where it is
relaxed_dequeue_marks_front(sq, it) ==
    IF ~(sq.len > 0)
    THEN [sq |-> sq, rank_error |-> 0,
          panic |-> "Cannot dequeue from an empty strict queue"]
    ELSE
      LET len1 == sq.len - 1
          pos  == find_item(sq.deque, it) IN
      IF pos = 0
      THEN [sq |-> [deque |-> sq.deque, len |-> len1], rank_error |-> 0,
            panic |-> "Could not find dequeued item"]
      ELSE [sq |-> [deque |-> [sq.deque EXCEPT ![pos] = <<it, FALSE>>],
                    len |-> len1],
            rank_error |-> scan_rank(sq.deque, pos), panic |-> "none"]

\* relaxed_dequeue(): [sq: the queue after the call, rank_error: the value
\* returned, panic: "none" or the message of the panic raised]
relaxed_dequeue(sq, it) ==
    IF ~(sq.len > 0)
    THEN [sq |-> sq, rank_error |-> 0,
          panic |-> "Cannot dequeue from an empty strict queue"]
    ELSE
      LET len1 == sq.len - 1 IN
      IF sq.deque = << >>
      THEN [sq |-> [deque |-> sq.deque, len |-> len1], rank_error |-> 0,
            panic |-> "Item must exist"]
      ELSE IF Head(sq.deque)[1] = it
      THEN [sq |-> [deque |-> pop_dead(Tail(sq.deque)), len |-> len1],
            rank_error |-> 0, panic |-> "none"]
      ELSE
        LET pos == find_item(sq.deque, it) IN
        IF pos = 0
        THEN [sq |-> [deque |-> sq.deque, len |-> len1],
              rank_error |-> scan_rank(sq.deque, Len(sq.deque) + 1),
              panic |-> "Could not find dequeued item"]
        ELSE [sq |-> [deque |-> [sq.deque EXCEPT ![pos] = <<it, FALSE>>],
                      len |-> len1],
              rank_error |-> scan_rank(sq.deque, pos), panic |-> "none"]

\* ------------------------------------------------------------------------
\* ErrorTag (relaxation_simulation.rs:44-69)
\* ------------------------------------------------------------------------
\* faulty variant of ItemDequeue: deq_nbr and sub_nbr change places
ItemDequeue_swaps_numbers(re, en, dn, sn) ==
    [tag |-> "ItemDequeue", rank_error |-> re, enq_nbr |-> en,
     deq_nbr |-> sn, sub_nbr |-> dn]

ItemDequeue(re, en, dn, sn) ==
    [tag |-> "ItemDequeue", rank_error |-> re, enq_nbr |-> en,
     deq_nbr |-> dn, sub_nbr |-> sn]

EmptyDequeue(re, dn, sn) ==
    [tag |-> "EmptyDequeue", rank_error |-> re, deq_nbr |-> dn, sub_nbr |-> sn]

\* ------------------------------------------------------------------------
\* The drivers (relaxation_simulation.rs:6-41 and 95-139)
\* ------------------------------------------------------------------------
\* faulty variant of empty_rank_error: an empty return is scored 0
empty_rank_error_zero(sq) == 0

\* the rank error pushed for an empty return (lines 35 and 130)
empty_rank_error(sq) == StrictQueue_len(sq)

\* the queue configurations DChoiceQueue::new is given and the code runs with
Configs ==
    {c \in [n : 1..MaxShards, d : 1..MaxD, uniques : BOOLEAN,
            progress : BOOLEAN, empty_lin : BOOLEAN] : c.d <= c.n \/ c.n = 1}

InitWith(cfgs, drivers, prefills, len) ==
    /\ \E c \in cfgs :
          /\ subqueues = DChoiceQueue_new(c.n)
          /\ d = c.d
          /\ uniques = c.uniques
          /\ progress_heuristic = c.progress
          /\ empty_lin = c.empty_lin
    /\ inds = << >>
    /\ subqueue_ind = None
    /\ strict_queue = StrictQueue_new
    /\ driver \in drivers
    /\ prefill \in prefills
    /\ n_ops = len
    /\ item = 0
    /\ operations = << >>
    /\ enq_nbr = prefill
    /\ deq_nbr = 0
    /\ rank_errors = << >>
    /\ error_tags = << >>
    /\ fatal = "none"

Init ==
    /\ InitWith(Configs, {"simple", "extra"}, 0..MaxPrefill, MaxOps)
    /\ extra_ops = 0
    /\ distributions = << >>

cfg_vars == << d, uniques, progress_heuristic, empty_lin, driver, prefill, n_ops,
              extra_ops, distributions >>

\* whether the next entry of the script can be op: the script is n_ops
\* entries of the caller's, then (analyze_distributions, lines 23-28)
\* extra_ops times true, then extra_ops times false
CanReplay(op) ==
    LET k == Len(operations)
    IN  \/ k < n_ops
        \/ k >= n_ops /\ k < n_ops + extra_ops /\ op
        \/ k >= n_ops + extra_ops /\ k < n_ops + 2 * extra_ops /\ ~op

\* one iteration of the prefill loop (lines 14-18 / 103-107)
Prefill ==
    /\ fatal = "none"
    /\ item < prefill
    /\ queue_panic = "none"
    /\ \E s \in subqueue_inds :
          /\ inds' = s
          /\ subqueue_ind' = enqueue_ind(subqueues, s)
          /\ strict_queue' = StrictQueue_enqueue(strict_queue, item)
          /\ subqueues' = DChoiceQueue_enqueue(subqueues, s, item)
    /\ item' = item + 1
    /\ UNCHANGED << cfg_vars, operations, enq_nbr, deq_nbr, rank_errors,
                    error_tags, fatal >>

\* one iteration of the operations loop with *op true (lines 24-28 / 114-118)
Enqueue ==
    /\ fatal = "none"
    /\ item = prefill
    /\ CanReplay(TRUE)
    /\ queue_panic = "none"
    /\ operations' = Append(operations, TRUE)
    /\ \E s \in subqueue_inds :
          /\ inds' = s
          /\ subqueue_ind' = enqueue_ind(subqueues, s)
          /\ strict_queue' = StrictQueue_enqueue(strict_queue, enq_nbr)
          /\ subqueues' = DChoiceQueue_enqueue(subqueues, s, enq_nbr)
    /\ enq_nbr' = enq_nbr + 1
    /\ UNCHANGED << cfg_vars, item, deq_nbr, rank_errors, error_tags, fatal >>

\* analyze_simple, one iteration with *op false (lines 30-36)
DequeueSimple ==
    /\ fatal = "none"
    /\ driver = "simple"
    /\ item = prefill
    /\ CanReplay(FALSE)
    /\ queue_panic = "none"
    /\ operations' = Append(operations, FALSE)
    /\ \E s \in subqueue_inds :
          LET r  == DChoiceQueue_dequeue(subqueues, s)
              rd == relaxed_dequeue(strict_queue, r.ret)
          IN  /\ inds' = s
              /\ subqueue_ind' = dequeue_ind(subqueues, s)
              /\ subqueues' = r.sqs
              /\ IF r.ret # None
                 THEN /\ strict_queue' = rd.sq
                      /\ fatal' = rd.panic
                      /\ rank_errors' = IF rd.panic = "none"
                                        THEN Append(rank_errors, rd.rank_error)
                                        ELSE rank_errors
                 ELSE /\ strict_queue' = strict_queue
                      /\ fatal' = fatal
                      /\ rank_errors' =
                            Append(rank_errors, empty_rank_error(strict_queue))
    /\ UNCHANGED << cfg_vars, item, enq_nbr, deq_nbr, error_tags >>

\* analyze_extra, one iteration with *op false (lines 120-134)
DequeueExtra ==
    /\ fatal = "none"
    /\ driver = "extra"
    /\ item = prefill
    /\ CanReplay(FALSE)
    /\ queue_panic = "none"
    /\ operations' = Append(operations, FALSE)
    /\ deq_nbr' = deq_nbr + 1
    /\ \E s \in subqueue_inds :
          LET r  == DChoiceQueue_dequeue_with_info(subqueues, s)
              rd == relaxed_dequeue(strict_queue, r.ret)
          IN  /\ inds' = s
              /\ subqueue_ind' = dequeue_ind(subqueues, s)
              /\ subqueues' = r.sqs
              /\ IF r.ret # None
                 THEN /\ strict_queue' = rd.sq
                      /\ fatal' = rd.panic
                      /\ error_tags' =
                            IF rd.panic = "none"
                            THEN Append(error_tags,
                                   ItemDequeue(rd.rank_error, r.ret, deq_nbr', r.info))
                            ELSE error_tags
                 ELSE /\ strict_queue' = strict_queue
                      /\ fatal' = fatal
                      /\ error_tags' =
                            Append(error_tags,
                              EmptyDequeue(empty_rank_error(strict_queue), deq_nbr', r.info))
    /\ UNCHANGED << cfg_vars, item, enq_nbr, rank_errors >>

Next == Prefill \/ Enqueue \/ DequeueSimple \/ DequeueExtra

Spec == Init /\ [][Next]_vars

\* ------------------------------------------------------------------------
\* analyze_extra on symmetric workloads: d = n, uniques, and a script that
\* alternates enqueues and dequeues or is an enqueue block followed by a
\* dequeue block
\* ------------------------------------------------------------------------
SymConfigs == {c \in Configs : c.d = c.n /\ c.uniques}

Alternating(ops) == \A i \in 1..(Len(ops) - 1) : ops[i] # ops[i + 1]

Blocks(ops) == \A i, j \in DOMAIN ops : (i < j /\ ~ops[i]) => ~ops[j]

SymShape(ops) == Alternating(ops) \/ Blocks(ops)

InitSym ==
    /\ InitWith(SymConfigs, {"extra"}, 0..SymPrefill, SymOps)
    /\ extra_ops = 0
    /\ distributions = << >>

EnqueueSym == Enqueue /\ SymShape(operations')

DequeueSym == DequeueExtra /\ SymShape(operations')

NextSym == Prefill \/ EnqueueSym \/ DequeueSym

SpecSym == InitSym /\ [][NextSym]_vars

\* ------------------------------------------------------------------------
\* The drivers on the configurations DChoiceQueue::new accepts although no
\* sample can be drawn from them, or the sample is not d distinct indices:
\* no sub-queue, d = 0, d above the number of sub-queues
\* ------------------------------------------------------------------------
InvalidConfigs ==
    {c \in [n : 0..MaxShards, d : 0..(MaxD + 1), uniques : BOOLEAN,
            progress : BOOLEAN, empty_lin : BOOLEAN] :
        c.n = 0 \/ c.d = 0 \/ c.d > c.n}

InitCfg ==
    /\ InitWith(InvalidConfigs, {"simple", "extra"}, 0..MaxPrefill, MaxOps)
    /\ extra_ops = 0
    /\ distributions = << >>

\* an iteration of the prefill loop whose relaxed_queue.enqueue(item) panics;
\* strict_queue.enqueue(item) has run (lines 16-17 / 105-106)
PrefillPanics ==
    /\ fatal = "none"
    /\ item < prefill
    /\ queue_panic # "none"
    /\ strict_queue' = StrictQueue_enqueue(strict_queue, item)
    /\ fatal' = queue_panic
    /\ UNCHANGED << cfg_vars, subqueues, inds, subqueue_ind, item, operations,
                    enq_nbr, deq_nbr, rank_errors, error_tags >>

\* an iteration with *op true whose relaxed_queue.enqueue(enq_nbr) panics
EnqueuePanics ==
    /\ fatal = "none"
    /\ item = prefill
    /\ CanReplay(TRUE)
    /\ queue_panic # "none"
    /\ operations' = Append(operations, TRUE)
    /\ strict_queue' = StrictQueue_enqueue(strict_queue, enq_nbr)
    /\ fatal' = queue_panic
    /\ UNCHANGED << cfg_vars, subqueues, inds, subqueue_ind, item, enq_nbr,
                    deq_nbr, rank_errors, error_tags >>

\* an iteration with *op false whose dequeue() / dequeue_with_info() panics;
\* analyze_extra has incremented deq_nbr (line 121)
DequeuePanics ==
    /\ fatal = "none"
    /\ item = prefill
    /\ CanReplay(FALSE)
    /\ queue_panic # "none"
    /\ operations' = Append(operations, FALSE)
    /\ deq_nbr' = IF driver = "extra" THEN deq_nbr + 1 ELSE deq_nbr
    /\ fatal' = queue_panic
    /\ UNCHANGED << cfg_vars, subqueues, inds, subqueue_ind, strict_queue, item,
                    enq_nbr, rank_errors, error_tags >>

NextCfg ==
    \/ Prefill \/ Enqueue \/ DequeueSimple \/ DequeueExtra
    \/ PrefillPanics \/ EnqueuePanics \/ DequeuePanics

SpecCfg == InitCfg /\ [][NextCfg]_vars

\* ------------------------------------------------------------------------
\* StrictQueue on its own: the driver's loop (lines 112-134) with the relaxed
\* queue replaced by a source of arbitrary items, so that relaxed_dequeue is
\* called with ids the d-choice queue would never return
\* ------------------------------------------------------------------------
TrackerIds == 0..(TrackerOps - 1)

InitTracker ==
    /\ InitWith({c \in Configs : c.n = 1 /\ c.d = 1 /\ c.uniques /\ c.progress
                                  /\ c.empty_lin},
                {"tracker"}, {0}, TrackerOps)
    /\ extra_ops = 0
    /\ distributions = << >>

\* strict_queue.enqueue(enq_nbr); enq_nbr += 1
TrackerEnqueue ==
    /\ fatal = "none"
    /\ driver = "tracker"
    /\ Len(operations) < n_ops
    /\ operations' = Append(operations, TRUE)
    /\ strict_queue' = StrictQueue_enqueue(strict_queue, enq_nbr)
    /\ enq_nbr' = enq_nbr + 1
    /\ UNCHANGED << cfg_vars, subqueues, inds, subqueue_ind, item, deq_nbr,
                    rank_errors, error_tags, fatal >>

\* deq_nbr += 1; strict_queue.relaxed_dequeue(id) for any id; what it returns
\* is pushed as an ItemDequeue of id
TrackerDequeue ==
    /\ fatal = "none"
    /\ driver = "tracker"
    /\ Len(operations) < n_ops
    /\ operations' = Append(operations, FALSE)
    /\ deq_nbr' = deq_nbr + 1
    /\ \E id \in TrackerIds :
          LET rd == relaxed_dequeue(strict_queue, id)
          IN  /\ strict_queue' = rd.sq
              /\ fatal' = rd.panic
              /\ error_tags' =
                    IF rd.panic = "none"
                    THEN Append(error_tags,
                           ItemDequeue(rd.rank_error, id, deq_nbr', None))
                    ELSE error_tags
    /\ UNCHANGED << cfg_vars, subqueues, inds, subqueue_ind, item, enq_nbr,
                    rank_errors >>

NextTracker == TrackerEnqueue \/ TrackerDequeue

SpecTracker == InitTracker /\ [][NextTracker]_vars

\* ------------------------------------------------------------------------
\* analyze_distributions (relaxation_analysis.rs:16-104).  It is written
\* against DRa and the names nbr_partials, partial_nbr, partial_*_counts;
\* they are read as DChoiceQueue's nbr_subqueues, sub_nbr, subqueue_*_counts.
\* The f32 loads are kept exact, in units of 1 / nbr_subqueues.
\* ------------------------------------------------------------------------
\* faulty variant of sort: the vector is returned as collected
sort_forgotten(s) == s

RECURSIVE insert_sorted(_, _)
insert_sorted(x, s) ==
    IF s = << >> THEN << x >>
    ELSE IF x <= Head(s) THEN << x >> \o s
    ELSE << Head(s) >> \o insert_sorted(x, Tail(s))

\* Vec::sort / sort_by(partial_cmp): ascending
RECURSIVE sort(_)
sort(s) == IF s = << >> THEN << >> ELSE insert_sorted(Head(s), sort(Tail(s)))

RECURSIVE sum_seq(_)
sum_seq(s) == IF s = << >> THEN 0 ELSE Head(s) + sum_seq(Tail(s))

\* the records filter_map keeps (lines 37-42 and 58-68)
item_dequeues(tags) == SelectSeq(tags, LAMBDA t : t.tag = "ItemDequeue")

subqueue_enqueue_counts(sqs) ==
    [k \in 1..Cardinality(DOMAIN sqs) |-> sqs[k - 1].tail]

subqueue_dequeue_counts(sqs) ==
    [k \in 1..Cardinality(DOMAIN sqs) |-> sqs[k - 1].head]

\* lines 72-79 / 81-88: the sorted counts minus their mean
normalized_counts(counts) ==
    LET sorted == sort(counts)
    IN  [k \in DOMAIN sorted |-> Len(counts) * sorted[k] - sum_seq(counts)]

\* faulty variant of distributions_of: the rank errors of the empty returns
\* are left out of the first vector
distributions_of_items_only(tags, sqs) ==
    LET n     == Cardinality(DOMAIN sqs)
        items == item_dequeues(tags)
    IN  [rank_errors   |-> sort([k \in DOMAIN items |-> items[k].rank_error]),
         enq_deq_diffs |->
            sort([k \in DOMAIN items |-> items[k].enq_nbr - items[k].deq_nbr]),
         partial_deq_diff |->
            sort([k \in DOMAIN tags |->
                    n * (tags[k].sub_nbr - 1) - tags[k].deq_nbr]),
         partial_enq_diff |->
            sort([k \in DOMAIN items |->
                    n * (items[k].sub_nbr - 1) - items[k].enq_nbr]),
         enqueue_normlized_counts |->
            normalized_counts(subqueue_enqueue_counts(sqs)),
         dequeue_normlized_counts |->
            normalized_counts(subqueue_dequeue_counts(sqs))]

\* the tuple analyze_distributions returns, from what analyze_extra returned
\* and the queue it ran on
distributions_of(tags, sqs) ==
    LET n     == Cardinality(DOMAIN sqs)
        items == item_dequeues(tags)
    IN  [rank_errors   |-> sort([k \in DOMAIN tags |-> tags[k].rank_error]),
         enq_deq_diffs |->
            sort([k \in DOMAIN items |-> items[k].enq_nbr - items[k].deq_nbr]),
         partial_deq_diff |->
            sort([k \in DOMAIN tags |->
                    n * (tags[k].sub_nbr - 1) - tags[k].deq_nbr]),
         partial_enq_diff |->
            sort([k \in DOMAIN items |->
                    n * (items[k].sub_nbr - 1) - items[k].enq_nbr]),
         enqueue_normlized_counts |->
            normalized_counts(subqueue_enqueue_counts(sqs)),
         dequeue_normlized_counts |->
            normalized_counts(subqueue_dequeue_counts(sqs))]

InitDist ==
    /\ InitWith(Configs, {"extra"}, 0..(MaxPrefill - 1), DistOps)
    /\ extra_ops \in 0..(nbr_subqueues - 1)
    /\ distributions = << >>

\* analyze_extra has returned: lines 32-97
Distributions ==
    /\ fatal = "none"
    /\ driver = "extra"
    /\ item = prefill
    /\ Len(operations) = n_ops + 2 * extra_ops
    /\ distributions = << >>
    /\ distributions' = << distributions_of(error_tags, subqueues) >>
    /\ UNCHANGED << subqueues, d, uniques, progress_heuristic, empty_lin, inds,
                    subqueue_ind, strict_queue, driver, prefill, n_ops, item,
                    operations, enq_nbr, deq_nbr, rank_errors, error_tags, fatal,
                    extra_ops >>

NextDist == Prefill \/ Enqueue \/ DequeueExtra \/ Distributions

SpecDist == InitDist /\ [][NextDist]_vars

\* ------------------------------------------------------------------------
\* The drivers on queues of ScanShards sub-queues with empty_lin set, where
\* the scan after an empty pop has more than one sub-queue to go through;
\* d = 1, so that every sub-queue can be the selected one in every state
\* ------------------------------------------------------------------------
ScanConfigs ==
    [n : {ScanShards}, d : {1}, uniques : BOOLEAN, progress : BOOLEAN,
     empty_lin : {TRUE}]

InitScan ==
    /\ InitWith(ScanConfigs, {"simple", "extra"}, 0..MaxPrefill, ScanOps)
    /\ extra_ops = 0
    /\ distributions = << >>

SpecScan == InitScan /\ [][Next]_vars

\* ------------------------------------------------------------------------
\* DRa (d_ra.rs): the queue variant with partial queues, behind the same
\* RelaxedFifo interface; ps is DRa.partials, 0..n-1 -> [head, tail, fifo],
\* and d, uniques, progress_heuristic, empty_lin are its fields of those names
\* ------------------------------------------------------------------------
Partial_new == [head |-> 0, tail |-> 0, fifo |-> << >>]

\* faulty variant of Partial_enqueue: the item is pushed at the front
Partial_enqueue_push_front(q, it) ==
    [head |-> q.head, tail |-> q.tail + 1, fifo |-> << it >> \o q.fifo]

Partial_enqueue(q, it) ==
    [head |-> q.head, tail |-> q.tail + 1, fifo |-> Append(q.fifo, it)]

Partial_dequeue(q) ==
    IF q.fifo = << >>
    THEN [q |-> q, ret |-> None]
    ELSE [q   |-> [head |-> q.head + 1, tail |-> q.tail, fifo |-> Tail(q.fifo)],
          ret |-> Head(q.fifo)]

Partial_len(q) == Len(q.fifo)

DRa_new(n) == [i \in 0..(n - 1) |-> Partial_new]

\* every vector partial_inds() can return
partial_inds(ps) ==
    IF uniques
    THEN choose_multiple(Cardinality(DOMAIN ps), d)
    ELSE [1..d -> 0..(Cardinality(DOMAIN ps) - 1)]

DRa_enqueue(ps, s, it) ==
    LET partial_ind ==
            IF progress_heuristic
            THEN min_by_key(s, [i \in DOMAIN ps |-> ps[i].tail])
            ELSE min_by_key(s, [i \in DOMAIN ps |-> ps[i].tail - ps[i].head])
    IN  [ps EXCEPT ![partial_ind] = Partial_enqueue(@, it)]

\* dequeue(): [ps: the partials after the call, ret: the Option returned]
DRa_dequeue(ps, s) ==
    LET n == Cardinality(DOMAIN ps)
        partial_ind ==
            IF progress_heuristic
            THEN min_by_key(s, [i \in DOMAIN ps |-> ps[i].head])
            ELSE max_by_key(s, [i \in DOMAIN ps |-> ps[i].tail - ps[i].head])
        first == Partial_dequeue(ps[partial_ind])
        hits  == {k \in 1..(n - 1) : Partial_len(ps[(partial_ind + k) % n]) > 0}
    IN  IF first.ret = None /\ empty_lin
        THEN IF hits = {}
             THEN [ps |-> ps, ret |-> None]
             ELSE LET ind == (partial_ind
                               + (CHOOSE k \in hits : \A m \in hits : k <= m)) % n
                  IN  [ps  |-> [ps EXCEPT ![ind] = Partial_dequeue(@).q],
                       ret |-> Partial_dequeue(ps[ind]).ret]
        ELSE [ps |-> [ps EXCEPT ![partial_ind] = first.q], ret |-> first.ret]

\* ------------------------------------------------------------------------

\* What a run has done so far, read off the driver's own state
\* ------------------------------------------------------------------------
Range(s) == {s[i] : i \in DOMAIN s}

\* the items the relaxed queue holds
QueueItems(sqs) == UNION {Range(sqs[i].fifo) : i \in DOMAIN sqs}

\* enqueue operations of the script replayed so far
NumEnqOps == Cardinality({i \in DOMAIN operations : operations[i]})

\* dequeue operations of the script replayed so far
NumDeqOps == Cardinality({i \in DOMAIN operations : ~operations[i]})

\* items presented to both queues so far: prefill items, then scripted ones
NumEnqueued == item + NumEnqOps

ItemTags == {k \in DOMAIN error_tags : error_tags[k].tag = "ItemDequeue"}
EmptyTags == {k \in DOMAIN error_tags : error_tags[k].tag = "EmptyDequeue"}

\* the ids analyze_extra has recorded as dequeued
DequeuedIds == {error_tags[k].enq_nbr : k \in ItemTags}

\* the ids enqueued and not yet dequeued: from the records under analyze_extra,
\* from the relaxed queue under analyze_simple (which records no ids)
Outstanding ==
    IF driver = "extra" THEN (0..(NumEnqueued - 1)) \ DequeuedIds
    ELSE QueueItems(subqueues)

SetMin(S) == CHOOSE x \in S : \A y \in S : x <= y

LastTag == error_tags[Len(error_tags)]
LastRank == rank_errors[Len(rank_errors)]

\* this step replays a dequeue of the script
DeqStep == operations' = Append(operations, FALSE)

\* this step is a dequeue of analyze_extra that recorded an item
ExtraItemStep ==
    /\ DeqStep /\ driver = "extra"
    /\ Len(error_tags') = Len(error_tags) + 1
    /\ LastTag'.tag = "ItemDequeue"

\* this step is a dequeue of analyze_simple that took an item out of the queue
SimpleItemStep ==
    /\ DeqStep /\ driver = "simple"
    /\ QueueItems(subqueues') # QueueItems(subqueues)

\* the item a SimpleItemStep took out
Removed == CHOOSE x \in QueueItems(subqueues) : x \notin QueueItems(subqueues')

\* the relaxed queue answers None to the dequeue of this step
ReportsNone ==
    /\ DeqStep
    /\ IF driver = "extra"
       THEN DChoiceQueue_dequeue_with_info(subqueues, inds').ret = None
       ELSE DChoiceQueue_dequeue(subqueues, inds').ret = None

OlderOutstanding(id) == Cardinality({x \in Outstanding : x < id})

\* ------------------------------------------------------------------------
\* C1: for every successful dequeue of a driver run the recorded rank error
\* is the number of items with a smaller id that were enqueued and are not
\* yet dequeued at the moment of that dequeue.
\* ------------------------------------------------------------------------
C1_RankErrorCountsOlderOutstanding ==
    [][ /\ ExtraItemStep =>
              /\ LastTag'.enq_nbr \in Outstanding
              /\ LastTag'.rank_error = OlderOutstanding(LastTag'.enq_nbr)
        /\ SimpleItemStep =>
              /\ Len(rank_errors') = Len(rank_errors) + 1
              /\ LastRank' = OlderOutstanding(Removed) ]_vars

\* a dequeue scored 1 although two older ids precede it in the reference
\* deque: one of them is already marked dead
C1_Witness ==
    /\ driver = "extra" /\ error_tags # << >>
    /\ LastTag.tag = "ItemDequeue" /\ LastTag.rank_error = 1
    /\ \E i \in DOMAIN strict_queue.deque :
          /\ strict_queue.deque[i] = <<LastTag.enq_nbr, FALSE>>
          /\ \E j \in 1..(i - 1) : ~strict_queue.deque[j][2]

\* ------------------------------------------------------------------------
\* C2: conservation.  After any prefix of a run the items presented (prefill
\* items inserted plus enqueue operations replayed) equal the successful
\* dequeues plus the reference queue's live count.
\* ------------------------------------------------------------------------
SumHeads == LET RECURSIVE sum(_)
                sum(S) == IF S = {} THEN 0
                          ELSE LET i == CHOOSE x \in S : TRUE
                               IN  subqueues[i].head + sum(S \ {i})
            IN  sum(DOMAIN subqueues)

C2_Conservation ==
    fatal = "none" =>
        /\ driver = "extra" =>
              item + NumEnqOps = Cardinality(ItemTags) + StrictQueue_len(strict_queue)
        /\ item + NumEnqOps = SumHeads + StrictQueue_len(strict_queue)

C2_Witness ==
    /\ driver = "extra" /\ fatal = "none"
    /\ item = prefill /\ prefill >= 1 /\ NumEnqOps >= 1
    /\ Cardinality(ItemTags) >= 1 /\ EmptyTags # {}
    /\ StrictQueue_len(strict_queue) >= 1

\* ------------------------------------------------------------------------
\* C3: with empty_lin a dequeue returns None only when every sub-queue is
\* empty; so a dequeue preceded by more enqueues (prefill included) than
\* dequeues never yields an EmptyDequeue record.
\* ------------------------------------------------------------------------
\* position in the script of the k-th dequeue
DeqPos(k) ==
    CHOOSE p \in DOMAIN operations :
        /\ ~operations[p]
        /\ Cardinality({q \in 1..p : ~operations[q]}) = k

\* enqueues (prefill included) that precede the k-th dequeue
EnqBefore(k) == prefill + Cardinality({q \in 1..DeqPos(k) : operations[q]})

NoSpuriousEmptyRecord ==
    \A k \in DOMAIN error_tags :
        EnqBefore(k) > k - 1 => error_tags[k].tag = "ItemDequeue"

C3_EmptyOnlyWhenAllEmpty ==
    [][ empty_lin =>
          /\ ReportsNone => \A i \in DOMAIN subqueues : subqueues[i].fifo = << >>
          /\ (DeqStep /\ QueueItems(subqueues) # {}) =>
                /\ QueueItems(subqueues') # QueueItems(subqueues)
                /\ driver = "extra" => LastTag'.tag = "ItemDequeue"
          /\ NoSpuriousEmptyRecord' ]_vars

\* the fallback served: the selected sub-queue never held an item, and the
\* dequeue still recorded one
C3_Witness ==
    /\ empty_lin /\ driver = "extra"
    /\ operations # << >> /\ ~operations[Len(operations)]
    /\ LastTag.tag = "ItemDequeue" /\ LastTag.deq_nbr = deq_nbr
    /\ subqueues[subqueue_ind].tail = 0

\* ------------------------------------------------------------------------
\* C4: without empty_lin, when the selected sub-queue is empty the dequeue
\* returns None at once, whatever the other sub-queues hold; no sub-queue
\* changes, and the driver records an empty dequeue whose rank error is the
\* live count.
\* ------------------------------------------------------------------------
C4_NoFallbackReturnsNone ==
    [][ (~empty_lin /\ DeqStep /\ subqueues[subqueue_ind'].fifo = << >>) =>
          /\ subqueues' = subqueues
          /\ ReportsNone
          /\ driver = "extra" =>
                /\ Len(error_tags') = Len(error_tags) + 1
                /\ LastTag'.tag = "EmptyDequeue"
                /\ LastTag'.rank_error = strict_queue.len
          /\ driver = "simple" =>
                rank_errors' = Append(rank_errors, strict_queue.len) ]_vars

\* Scenario C: one item, in sub-queue 0; sub-queue 1 selected; rank error 1
C4_Witness ==
    /\ ~empty_lin /\ driver = "extra"
    /\ operations # << >> /\ ~operations[Len(operations)]
    /\ subqueue_ind = 1
    /\ Len(subqueues[0].fifo) = 1 /\ subqueues[1].fifo = << >>
    /\ LastTag.tag = "EmptyDequeue" /\ LastTag.deq_nbr = deq_nbr
    /\ LastTag.rank_error = 1

\* ------------------------------------------------------------------------
\* C5: whenever the relaxed queue reports None the driver records an empty
\* dequeue (the run does not fail) whose rank error is the reference queue's
\* live count, and the reference queue is left as it was.
\* ------------------------------------------------------------------------
C5_EmptyScoredAsLiveCount ==
    [][ ReportsNone =>
          /\ fatal' = "none"
          /\ strict_queue' = strict_queue
          /\ driver = "extra" =>
                /\ Len(error_tags') = Len(error_tags) + 1
                /\ LastTag'.tag = "EmptyDequeue"
                /\ LastTag'.rank_error = strict_queue.len
          /\ driver = "simple" =>
                rank_errors' = Append(rank_errors, strict_queue.len) ]_vars

\* an empty return scored with the live count 1 while the reference deque
\* stores two entries, one of them dead
C5_Witness ==
    /\ driver = "extra"
    /\ operations # << >> /\ ~operations[Len(operations)]
    /\ LastTag.tag = "EmptyDequeue" /\ LastTag.deq_nbr = deq_nbr
    /\ LastTag.rank_error = 1
    /\ strict_queue.len = 1 /\ Len(strict_queue.deque) = 2

\* ------------------------------------------------------------------------
\* C6: the rank error of a successful dequeue is >= 0, and it is 0 exactly
\* when the dequeued item is the oldest item still alive, which is the front
\* entry of the reference deque at that moment.
\* ------------------------------------------------------------------------
RankZeroIffFront(rank, id) ==
    /\ rank >= 0
    /\ Outstanding # {}
    /\ strict_queue.deque # << >>
    /\ (rank = 0) <=> (id = SetMin(Outstanding))
    /\ (rank = 0) <=> (id = Head(strict_queue.deque)[1])

C6_RankZeroIffOldest ==
    [][ /\ ExtraItemStep => RankZeroIffFront(LastTag'.rank_error, LastTag'.enq_nbr)
        /\ SimpleItemStep => RankZeroIffFront(LastRank', Removed) ]_vars

\* rank error 0 for an item that became the oldest after dequeues out of order
C6_Witness ==
    /\ driver = "extra" /\ Len(error_tags) >= 3
    /\ LastTag.tag = "ItemDequeue" /\ LastTag.rank_error = 0
    /\ \E k \in ItemTags : error_tags[k].rank_error >= 1
    /\ LastTag.enq_nbr >= 1

\* ------------------------------------------------------------------------
\* C7: every rank error a driver records, for an item or for an empty return,
\* is at most the reference queue's live count just before that dequeue.
\* ------------------------------------------------------------------------
C7_RankErrorAtMostLiveCount ==
    [][ DeqStep =>
          /\ driver = "extra" =>
                /\ Len(error_tags') = Len(error_tags) + 1
                /\ LastTag'.rank_error <= strict_queue.len
          /\ driver = "simple" =>
                /\ Len(rank_errors') = Len(rank_errors) + 1
                /\ LastRank' <= strict_queue.len ]_vars

\* Scenario B in small: d = 1 on two sub-queues, prefilled, dequeues only,
\* one of them scored with the whole live count
C7_Witness ==
    /\ driver = "extra" /\ d = 1 /\ nbr_subqueues = 2 /\ prefill = MaxPrefill
    /\ NumEnqOps = 0 /\ Len(error_tags) >= 2
    /\ \E k \in DOMAIN error_tags : error_tags[k].rank_error >= 1
    /\ LastTag.tag = "EmptyDequeue" /\ LastTag.rank_error = strict_queue.len
    /\ strict_queue.len >= 1

\* ------------------------------------------------------------------------
\* C8: shard accounting.  In every reachable state every sub-queue has
\* head <= tail and tail - head items stored.
\* ------------------------------------------------------------------------
C8_ShardAccounting ==
    \A i \in DOMAIN subqueues :
        /\ subqueues[i].head <= subqueues[i].tail
        /\ subqueues[i].tail - subqueues[i].head = Len(subqueues[i].fifo)

\* items dequeued and items still stored in one sub-queue, another never used,
\* after item and empty dequeues
C8_Witness ==
    /\ \E i \in DOMAIN subqueues :
          subqueues[i].head >= 1 /\ Len(subqueues[i].fifo) >= 1
    /\ \E i \in DOMAIN subqueues : subqueues[i].tail = 0
    /\ EmptyTags # {} /\ ItemTags # {}

\* ------------------------------------------------------------------------
\* C9: with one sub-queue (any d >= 1, any flags) the relaxed queue is a
\* strict FIFO: the k-th item dequeued is item k-1, the oldest outstanding,
\* and every record, empty ones included, has rank error 0.
\* ------------------------------------------------------------------------
C9_SingleShardIsStrictFifo ==
    nbr_subqueues = 1 =>
        /\ fatal = "none"
        /\ \A k \in DOMAIN error_tags : error_tags[k].rank_error = 0
        /\ \A k \in DOMAIN rank_errors : rank_errors[k] = 0
        /\ \A k \in ItemTags :
              error_tags[k].enq_nbr = Cardinality({j \in ItemTags : j < k})
        /\ QueueItems(subqueues) = (SumHeads..(NumEnqueued - 1))
        /\ \A p, q \in DOMAIN subqueues[0].fifo :
              p < q => subqueues[0].fifo[p] < subqueues[0].fifo[q]

C9_Witness ==
    /\ nbr_subqueues = 1 /\ d = 2 /\ driver = "extra"
    /\ Cardinality(ItemTags) >= 2 /\ EmptyTags # {}
    /\ NumEnqOps >= 1

\* ------------------------------------------------------------------------
\* C10: with d = n and uniques every enqueue and every dequeue samples each
\* sub-queue index exactly once; and with the progress heuristic every rank
\* error recorded on a symmetric workload is at most n.
\* ------------------------------------------------------------------------
SamplesEveryShardOnce ==
    inds # << >> =>
        /\ Len(inds) = nbr_subqueues
        /\ \A i \in DOMAIN subqueues :
              Cardinality({p \in DOMAIN inds : inds[p] = i}) = 1

RankErrorsAtMostShards ==
    \A k \in DOMAIN error_tags : error_tags[k].rank_error <= nbr_subqueues

C10_ProgressRankErrorAtMostShards ==
    (d = nbr_subqueues /\ uniques) =>
        /\ SamplesEveryShardOnce
        /\ progress_heuristic => RankErrorsAtMostShards

\* C10 as stated: either heuristic, on a workload with as many enqueues as
\* dequeues
C10_AsStated ==
    (d = nbr_subqueues /\ uniques) =>
        /\ SamplesEveryShardOnce
        /\ NumEnqOps = NumDeqOps => RankErrorsAtMostShards

\* a balanced alternating run under the progress heuristic with out-of-order
\* dequeues
C10_Witness ==
    /\ d = nbr_subqueues /\ uniques /\ progress_heuristic /\ nbr_subqueues = 2
    /\ NumEnqOps = NumDeqOps /\ NumEnqOps >= 3
    /\ Cardinality({k \in ItemTags : error_tags[k].rank_error = 1}) >= 2
    /\ Len(inds) = 2

\* ------------------------------------------------------------------------
\* C11: a configuration with no sub-queue, with d = 0 or with d above the
\* number of sub-queues is rejected at construction: no operation is ever
\* attempted on a queue of such a configuration.
\* ------------------------------------------------------------------------
InvalidConfig == nbr_subqueues = 0 \/ d = 0 \/ d > nbr_subqueues

NothingAttempted ==
    /\ item = 0
    /\ operations = << >>
    /\ strict_queue = StrictQueue_new
    /\ QueueItems(subqueues) = {}
    /\ fatal = "none"

C11_InvalidConfigRejected == InvalidConfig => NothingAttempted

\* ------------------------------------------------------------------------
\* C12: relaxed_dequeue(id) panics, and returns no rank error, whenever the
\* live count is 0, whenever id was never enqueued, and whenever id was
\* already dequeued by an earlier call, its dead entry still stored or not.
\* ------------------------------------------------------------------------
\* id must not be dequeued now: nothing is alive, or id was never enqueued,
\* or an earlier relaxed_dequeue(id) has returned
MustAbort(id) ==
    \/ StrictQueue_len(strict_queue) = 0
    \/ id >= enq_nbr
    \/ id \in DequeuedIds

C12_InvalidDequeueAborts ==
    \A id \in TrackerIds :
        MustAbort(id) => relaxed_dequeue(strict_queue, id).panic # "none"

\* ------------------------------------------------------------------------
\* C14: the usize dequeue_with_info returns beside the item, stored in the
\* record's sub_nbr, identifies the sub-queue that served the dequeue: the
\* selected one on a direct success or on an empty return, the one the scan
\* found when the scan served the item.  As stated the value is that
\* sub-queue's index; in the code it is that sub-queue's head after the call.
\* ------------------------------------------------------------------------
\* this step is a dequeue of analyze_extra that pushed a record
ExtraDeqStep ==
    /\ DeqStep /\ driver = "extra"
    /\ Len(error_tags') = Len(error_tags) + 1

\* the sub-queue an item was taken from in this step, or the selected one
Served ==
    IF subqueues' # subqueues
    THEN CHOOSE i \in DOMAIN subqueues : subqueues'[i] # subqueues[i]
    ELSE subqueue_ind'

C14_InfoIsHeadOfServingShard ==
    [][ ExtraDeqStep => LastTag'.sub_nbr = subqueues'[Served].head ]_vars

\* C14 as stated: the value is the index of the serving sub-queue
C14_InfoIsIndexOfServingShard ==
    [][ ExtraDeqStep => LastTag'.sub_nbr = Served ]_vars

\* the scan served the item from a sub-queue other than the selected one,
\* whose head is 0; the record holds 2, the head of the serving sub-queue
\* and not an index of a two-sub-queue queue
C14_Witness ==
    /\ driver = "extra" /\ empty_lin /\ nbr_subqueues = 2
    /\ operations # << >> /\ ~operations[Len(operations)]
    /\ LastTag.tag = "ItemDequeue" /\ LastTag.deq_nbr = deq_nbr
    /\ subqueues[subqueue_ind].head = 0
    /\ LastTag.sub_nbr = 2
    /\ \E i \in DOMAIN subqueues : subqueues[i].head = 2

EnqStep == item' = item + 1 \/ operations' = Append(operations, TRUE)

\* the ids of the entries the reference deque marks alive
AliveIds == {strict_queue.deque[p][1] :
                p \in {q \in DOMAIN strict_queue.deque : strict_queue.deque[q][2]}}

OneEntryPerItemInOrder ==
    /\ \A p, q \in DOMAIN strict_queue.deque :
          p < q => strict_queue.deque[p][1] < strict_queue.deque[q][1]
    /\ \A p \in DOMAIN strict_queue.deque :
          strict_queue.deque[p][1] \in 0..(NumEnqueued - 1)
    /\ AliveIds = QueueItems(subqueues)
    /\ AliveIds = Outstanding
    /\ enq_nbr = prefill + NumEnqOps

C16_IdsAreEnqueueRank ==
    [][ /\ EnqStep =>
              /\ strict_queue'.deque =
                    Append(strict_queue.deque, <<NumEnqueued, TRUE>>)
              /\ QueueItems(subqueues') = QueueItems(subqueues) \cup {NumEnqueued}
              /\ NumEnqueued \notin QueueItems(subqueues)
              /\ NumEnqueued' = NumEnqueued + 1
        /\ OneEntryPerItemInOrder' ]_vars

\* two prefill items and two scripted enqueues, the second one (id 3) after a
\* dequeue that left a dead entry in the middle of the deque
C16_Witness ==
    /\ prefill = 2 /\ operations = << TRUE, FALSE, TRUE >>
    /\ Len(strict_queue.deque) = 4
    /\ strict_queue.deque[2] = <<1, FALSE>>
    /\ strict_queue.deque[4] = <<3, TRUE>>
    /\ 3 \in QueueItems(subqueues)

\* ------------------------------------------------------------------------
\* C17: the rank-error distribution analyze_distributions returns is the
\* rank errors of all records, served and empty alike, sorted ascending; its
\* enq_nbr - deq_nbr distribution is that difference over the ItemDequeue
\* records only, sorted ascending: an EmptyDequeue record adds nothing to it.
\* ------------------------------------------------------------------------
IsAscending(s) == \A p, q \in DOMAIN s : p < q => s[p] <= s[q]

Count(s, v) == Cardinality({p \in DOMAIN s : s[p] = v})

C17_SortedDistributions ==
    distributions # << >> =>
        /\ IsAscending(distributions[1].rank_errors)
        /\ Len(distributions[1].rank_errors) = Len(error_tags)
        /\ \A k \in DOMAIN error_tags :
              Count(distributions[1].rank_errors, error_tags[k].rank_error)
                = Cardinality({j \in DOMAIN error_tags :
                      error_tags[j].rank_error = error_tags[k].rank_error})
        /\ IsAscending(distributions[1].enq_deq_diffs)
        /\ Len(distributions[1].enq_deq_diffs) = Cardinality(ItemTags)
        /\ \A k \in ItemTags :
              Count(distributions[1].enq_deq_diffs,
                    error_tags[k].enq_nbr - error_tags[k].deq_nbr)
                = Cardinality({j \in ItemTags :
                      error_tags[j].enq_nbr - error_tags[j].deq_nbr
                        = error_tags[k].enq_nbr - error_tags[k].deq_nbr})

\* distributions of a run with an empty and a served dequeue whose rank
\* errors were recorded in descending order, extra operations appended
C17_Witness ==
    /\ distributions # << >> /\ extra_ops >= 1
    /\ EmptyTags # {} /\ ItemTags # {}
    /\ \E j, k \in DOMAIN error_tags :
          j < k /\ error_tags[j].rank_error > error_tags[k].rank_error
    /\ Len(distributions[1].enq_deq_diffs) < Len(distributions[1].rank_errors)

\* ------------------------------------------------------------------------
\* C18: with empty_lin, when the selected sub-queue c is empty the dequeue
\* goes through c+1, c+2, ..., c+n-1 (mod n) in that order, pops and returns
\* the front item of the first non-empty one, increments the head of that
\* sub-queue only and leaves every other sub-queue as it was.
\* ------------------------------------------------------------------------
\* the distances from c, in 1..n-1, at which a sub-queue holds an item
NonEmptyAfter(c) ==
    {k \in 1..(nbr_subqueues - 1) :
        subqueues[(c + k) % nbr_subqueues].fifo # << >>}

C18_ScanServesFirstNonEmpty ==
    [][ (empty_lin /\ DeqStep /\ subqueues[subqueue_ind'].fifo = << >>) =>
          IF NonEmptyAfter(subqueue_ind') = {}
          THEN subqueues' = subqueues /\ ReportsNone
          ELSE LET j == (subqueue_ind' + SetMin(NonEmptyAfter(subqueue_ind')))
                          % nbr_subqueues
               IN  /\ subqueues' =
                         [subqueues EXCEPT ![j] =
                            [head |-> @.head + 1, tail |-> @.tail,
                             fifo |-> Tail(@.fifo)]]
                   /\ driver = "extra" =>
                         /\ LastTag'.tag = "ItemDequeue"
                         /\ LastTag'.enq_nbr = Head(subqueues[j].fifo) ]_vars

\* Scenario C: three sub-queues, the only item in sub-queue 0, sub-queue 1
\* selected; the dequeue returned the item, recorded with rank error 0
C18_Witness ==
    /\ empty_lin /\ driver = "extra" /\ nbr_subqueues = 3
    /\ operations = << FALSE >> /\ prefill = 1
    /\ subqueue_ind = 1
    /\ subqueues[0] = [head |-> 1, tail |-> 1, fifo |-> << >>]
    /\ subqueues[1] = SubQueue_new /\ subqueues[2] = SubQueue_new
    /\ error_tags = << ItemDequeue(0, 0, 1, 1) >>

\* ------------------------------------------------------------------------
\* C19: enqueue appends the item to a sub-queue that is among the sampled
\* indices and has, among them, the smallest tail (progress heuristic) or the
\* smallest tail - head (length heuristic); the tail of that sub-queue grows
\* by exactly 1, and its head and every other sub-queue stay as they were.
\* ------------------------------------------------------------------------
Depth(q) == q.tail - q.head

\* the sub-queues this step changed
Changed == {i \in DOMAIN subqueues : subqueues'[i] # subqueues[i]}

C19_EnqueueSelection ==
    [][ EnqStep =>
          \E i \in Range(inds') :
              /\ Changed = {i}
              /\ subqueues'[i].tail = subqueues[i].tail + 1
              /\ subqueues'[i].head = subqueues[i].head
              /\ subqueues'[i].fifo = Append(subqueues[i].fifo, NumEnqueued)
              /\ \A j \in Range(inds') :
                    IF progress_heuristic
                    THEN subqueues[i].tail <= subqueues[j].tail
                    ELSE Depth(subqueues[i]) <= Depth(subqueues[j]) ]_vars

\* an enqueue under the length heuristic that sampled two sub-queues and went
\* to the second one sampled, shorter than the first but with the larger tail
C19_Witness ==
    /\ ~progress_heuristic /\ Len(inds) = 2 /\ inds[1] # inds[2]
    /\ operations # << >> /\ operations[Len(operations)]
    /\ subqueue_ind = inds[2]
    /\ Depth(subqueues[inds[2]]) <= Depth(subqueues[inds[1]])
    /\ subqueues[inds[2]].tail > subqueues[inds[1]].tail
    /\ enq_nbr - 1 \in Range(subqueues[inds[2]].fifo)

\* ------------------------------------------------------------------------
\* C20: the sub-queue a dequeue tries first is among the sampled indices and
\* has, among them, the smallest head (progress heuristic) or the largest
\* tail - head (length heuristic); if it holds an item, its front item is
\* returned, its head grows by exactly 1 and no other sub-queue changes.
\* ------------------------------------------------------------------------
C20_DequeueSelection ==
    [][ DeqStep =>
          LET c == subqueue_ind' IN
          /\ c \in Range(inds')
          /\ \A j \in Range(inds') :
                IF progress_heuristic
                THEN subqueues[c].head <= subqueues[j].head
                ELSE Depth(subqueues[c]) >= Depth(subqueues[j])
          /\ subqueues[c].fifo # << >> =>
                /\ subqueues' =
                      [subqueues EXCEPT ![c] =
                         [head |-> @.head + 1, tail |-> @.tail,
                          fifo |-> Tail(@.fifo)]]
                /\ driver = "extra" =>
                      /\ LastTag'.tag = "ItemDequeue"
                      /\ LastTag'.enq_nbr = Head(subqueues[c].fifo)
                /\ driver = "simple" => Removed = Head(subqueues[c].fifo) ]_vars

\* a dequeue under the length heuristic that sampled two sub-queues and took
\* the item of the longer one, which is also the one dequeued from more
C20_Witness ==
    /\ ~progress_heuristic /\ driver = "extra" /\ Len(inds) = 2
    /\ inds[1] # inds[2]
    /\ operations # << >> /\ ~operations[Len(operations)]
    /\ LastTag.tag = "ItemDequeue" /\ LastTag.deq_nbr = deq_nbr
    /\ subqueues[subqueue_ind].head = 2
    /\ \E j \in Range(inds) :
          j # subqueue_ind /\ subqueues[j].head = 0
                           /\ Depth(subqueues[j]) = Depth(subqueues[subqueue_ind])

\* ------------------------------------------------------------------------
\* C21: when several sampled sub-queues tie on the key of the heuristic
\* (tail, head or tail - head), enqueue and dequeue select the tied sub-queue
\* with the lowest index, in whatever order the sampler produced the indices.
\* ------------------------------------------------------------------------
\* the lowest of the sampled indices s whose key is the minimum over s
LowestOfMin(s, key) ==
    SetMin({i \in Range(s) : \A j \in Range(s) : key[i] <= key[j]})

\* the lowest of the sampled indices s whose key is the maximum over s
LowestOfMax(s, key) ==
    SetMin({i \in Range(s) : \A j \in Range(s) : key[i] >= key[j]})

C21_TiesGoToLowestIndex ==
    [][ /\ EnqStep =>
              Changed = {LowestOfMin(inds',
                  IF progress_heuristic
                  THEN [i \in DOMAIN subqueues |-> subqueues[i].tail]
                  ELSE [i \in DOMAIN subqueues |-> Depth(subqueues[i])])}
        /\ DeqStep =>
              subqueue_ind' =
                  IF progress_heuristic
                  THEN LowestOfMin(inds',
                         [i \in DOMAIN subqueues |-> subqueues[i].head])
                  ELSE LowestOfMax(inds',
                         [i \in DOMAIN subqueues |-> Depth(subqueues[i])]) ]_vars

\* ------------------------------------------------------------------------
\* C22: for every operation the sampler returns exactly d indices, each in
\* 0..n-1; with uniques they are pairwise distinct, and asking for d > n
\* fails; without uniques an index may come several times.
\* ------------------------------------------------------------------------
\* an operation of the queue has completed: an item went in, or a dequeue
\* returned
OperationCompleted == inds # << >>

C22_SamplerReturnsDIndices ==
    OperationCompleted =>
        /\ Len(inds) = d
        /\ \A p \in DOMAIN inds : inds[p] \in 0..(nbr_subqueues - 1)
        /\ uniques =>
              /\ \A p, q \in DOMAIN inds : p # q => inds[p] # inds[q]
              /\ d <= nbr_subqueues

\* ------------------------------------------------------------------------
\* C23: popping dead entries off the front bounds the reference deque by the
\* outstanding items, not by the history.  As stated the bound is the live
\* count; in the code a dead entry behind a live one stays stored, and the
\* bound is the number of items enqueued since the oldest outstanding one.
\* ------------------------------------------------------------------------
C23_DequeWithinOutstandingSpan ==
    fatal = "none" =>
        /\ Len(strict_queue.deque) >= StrictQueue_len(strict_queue)
        /\ Outstanding = {} => strict_queue.deque = << >>
        /\ Outstanding # {} =>
              Len(strict_queue.deque) <= NumEnqueued - SetMin(Outstanding)

\* C23 as stated: the stored entries never outnumber the live count
C23_DequeWithinLiveCount ==
    Len(strict_queue.deque) <= StrictQueue_len(strict_queue)

\* entries were popped off the front, and a dead entry is still stored behind
\* the live front entry
C23_Witness ==
    /\ strict_queue.deque # << >>
    /\ Head(strict_queue.deque)[1] >= 1
    /\ Len(strict_queue.deque) > StrictQueue_len(strict_queue)
    /\ StrictQueue_len(strict_queue) >= 1

\* ------------------------------------------------------------------------
\* C24: the sub_nbr of an ItemDequeue record is the position, counted from 1,
\* at which the dequeued item was enqueued in the sub-queue that served it
\* (the tail of that sub-queue right after the item's enqueue), served
\* directly or by the scan; the sub_nbr of an EmptyDequeue record is the
\* unchanged head of the sub-queue selected.
\* ------------------------------------------------------------------------
\* the sub-queue that holds item id
ShardOf(sqs, id) == CHOOSE i \in DOMAIN sqs : id \in Range(sqs[i].fifo)

\* the position of a stored item in the enqueue order of its sub-queue: the
\* items dequeued from it so far plus the item's place in the fifo
PositionOf(sqs, id) ==
    LET q == sqs[ShardOf(sqs, id)]
    IN  q.head + (CHOOSE p \in DOMAIN q.fifo : q.fifo[p] = id)

C24_SubNbrIsEnqueuePosition ==
    [][ /\ EnqStep =>
              PositionOf(subqueues', NumEnqueued)
                = subqueues'[ShardOf(subqueues', NumEnqueued)].tail
        /\ \A id \in QueueItems(subqueues) \cap QueueItems(subqueues') :
              /\ ShardOf(subqueues', id) = ShardOf(subqueues, id)
              /\ PositionOf(subqueues', id) = PositionOf(subqueues, id)
        /\ ExtraItemStep =>
              /\ LastTag'.enq_nbr \in QueueItems(subqueues)
              /\ LastTag'.sub_nbr = PositionOf(subqueues, LastTag'.enq_nbr)
        /\ (ExtraDeqStep /\ LastTag'.tag = "EmptyDequeue") =>
              /\ subqueues' = subqueues
              /\ LastTag'.sub_nbr = subqueues[subqueue_ind'].head ]_vars

\* the second item enqueued in a sub-queue, served by the scan after an empty
\* return had been recorded with the head of a sub-queue dequeued from before
C24_Witness ==
    /\ driver = "extra" /\ empty_lin /\ Len(error_tags) >= 2
    /\ LastTag.tag = "ItemDequeue" /\ LastTag.sub_nbr = 2
    /\ LastTag.deq_nbr = deq_nbr /\ ~operations[Len(operations)]
    /\ subqueues[subqueue_ind].tail = 0
    /\ \E k \in EmptyTags : error_tags[k].sub_nbr = 1

\* ------------------------------------------------------------------------
\* C25: the deq_nbr of a record numbers the dequeues without the empty
\* returns: a dequeue that returned None does not advance the counter, so the
\* i-th ItemDequeue record has deq_nbr = i.
\* ------------------------------------------------------------------------
C25_DeqNbrSkipsEmptyReturns ==
    \A k \in ItemTags :
        error_tags[k].deq_nbr = Cardinality({j \in ItemTags : j <= k})

\* ------------------------------------------------------------------------
\* C26: in a driver run on a queue passed empty with 1 <= d <= n, whatever
\* the script, the prefill, the flags and the draws, no panic of
\* relaxed_dequeue is reached: the relaxed queue never returns an item that
\* was not enqueued or was returned before.
\* ------------------------------------------------------------------------
\* an item dequeued in this step was alive in the reference queue, which
\* stored it; the three checks of relaxed_dequeue pass
ReturnsAliveItem ==
    \A id \in QueueItems(subqueues) \ QueueItems(subqueues') :
        /\ StrictQueue_len(strict_queue) > 0
        /\ strict_queue.deque # << >>
        /\ \E p \in DOMAIN strict_queue.deque :
              strict_queue.deque[p] = <<id, TRUE>>
        /\ relaxed_dequeue(strict_queue, id).panic = "none"

C26_NoFatalCheckFires ==
    [][ fatal' = "none" /\ (DeqStep => ReturnsAliveItem) ]_vars

\* a run to the end of its script: dequeues in and out of order, an empty
\* return, a dead entry left in the reference deque, and no panic
C26_Witness ==
    /\ fatal = "none" /\ Len(operations) = n_ops /\ driver = "extra"
    /\ Cardinality(ItemTags) >= 2 /\ EmptyTags # {}
    /\ \E k \in ItemTags : error_tags[k].rank_error >= 1
    /\ \E p \in DOMAIN strict_queue.deque : ~strict_queue.deque[p][2]

\* ------------------------------------------------------------------------
\* C27: lockstep.  After every operation of a driver run the ids marked alive
\* in the reference queue are the ids stored in the sub-queues, each id in
\* exactly one sub-queue and once, and len is the sum over the sub-queues of
\* tail - head.
\* ------------------------------------------------------------------------
SumDepths ==
    LET RECURSIVE sum(_)
        sum(S) == IF S = {} THEN 0
                  ELSE LET i == CHOOSE x \in S : TRUE
                       IN  Depth(subqueues[i]) + sum(S \ {i})
    IN  sum(DOMAIN subqueues)

\* the places, << sub-queue, position in its fifo >>, where id is stored
PlacesOf(id) ==
    {pl \in UNION {{<<i, p>> : p \in DOMAIN subqueues[i].fifo} :
                      i \in DOMAIN subqueues} :
        subqueues[pl[1]].fifo[pl[2]] = id}

C27_Lockstep ==
    /\ AliveIds = QueueItems(subqueues)
    /\ \A id \in AliveIds :
          /\ Cardinality(PlacesOf(id)) = 1
          /\ Cardinality({p \in DOMAIN strict_queue.deque :
                             strict_queue.deque[p] = <<id, TRUE>>}) = 1
    /\ StrictQueue_len(strict_queue) = SumDepths
    /\ StrictQueue_len(strict_queue) = Cardinality(AliveIds)

\* items alive in both sub-queues, a dead entry in the deque, after served
\* and empty dequeues
C27_Witness ==
    /\ nbr_subqueues = 2
    /\ subqueues[0].fifo # << >> /\ subqueues[1].fifo # << >>
    /\ subqueues[0].head + subqueues[1].head >= 1
    /\ \E p \in DOMAIN strict_queue.deque : ~strict_queue.deque[p][2]
    /\ StrictQueue_len(strict_queue) = 2

\* ------------------------------------------------------------------------
\* C28: analyze_simple and analyze_extra agree on rank errors.  From the same
\* state and with the same draw, dequeue and dequeue_with_info select the
\* same sub-queue, return the same item and leave the same queue, and the
\* rank error one driver pushes is the rank_error of the record the other
\* pushes; so the two runs stay in the same state and push the same sequence.
\* ------------------------------------------------------------------------
\* what the dequeue branch of analyze_simple does from queue sqs, reference
\* queue sq and draw s (lines 30-36)
simple_dequeue(sqs, sq, s) ==
    LET r  == DChoiceQueue_dequeue(sqs, s)
        rd == relaxed_dequeue(sq, r.ret)
    IN  IF r.ret # None
        THEN [sqs |-> r.sqs, sq |-> rd.sq, rank_error |-> rd.rank_error]
        ELSE [sqs |-> r.sqs, sq |-> sq, rank_error |-> empty_rank_error(sq)]

\* what the dequeue branch of analyze_extra does (lines 120-134)
extra_dequeue(sqs, sq, s) ==
    LET r  == DChoiceQueue_dequeue_with_info(sqs, s)
        rd == relaxed_dequeue(sq, r.ret)
    IN  IF r.ret # None
        THEN [sqs |-> r.sqs, sq |-> rd.sq, rank_error |-> rd.rank_error]
        ELSE [sqs |-> r.sqs, sq |-> sq, rank_error |-> empty_rank_error(sq)]

C28_DriversAgreeOnRankErrors ==
    [][ DeqStep =>
          /\ DChoiceQueue_dequeue(subqueues, inds').ret
               = DChoiceQueue_dequeue_with_info(subqueues, inds').ret
          /\ DChoiceQueue_dequeue(subqueues, inds').sqs
               = DChoiceQueue_dequeue_with_info(subqueues, inds').sqs
          /\ driver = "extra" =>
                LET other == simple_dequeue(subqueues, strict_queue, inds')
                IN  /\ subqueues' = other.sqs
                    /\ strict_queue' = other.sq
                    /\ Len(error_tags') = Len(error_tags) + 1
                    /\ LastTag'.rank_error = other.rank_error
          /\ driver = "simple" =>
                LET other == extra_dequeue(subqueues, strict_queue, inds')
                IN  /\ subqueues' = other.sqs
                    /\ strict_queue' = other.sq
                    /\ rank_errors' = Append(rank_errors, other.rank_error) ]_vars

\* a run of analyze_simple with empty_lin: an item taken out of order, then
\* the older one, then an empty return
C28_Witness ==
    /\ driver = "simple" /\ empty_lin /\ nbr_subqueues = 2
    /\ rank_errors = << 1, 0, 0 >>
    /\ operations = << FALSE, FALSE, FALSE >>
    /\ QueueItems(subqueues) = {}

\* ------------------------------------------------------------------------
\* C29: DRa and DChoiceQueue are the same queue behind enqueue / dequeue.
\* Built with the same parameters and given the same operations and the same
\* draws, they return the same item or None at every dequeue and hold the
\* same contents, head and tail in every sub-queue after every step.  Checked
\* step by step: from every state the run of the DChoiceQueue reaches, DRa's
\* operation with the draw of the step gives the state the run goes to.
\* ------------------------------------------------------------------------
C29_DRaStepsAsDChoiceQueue ==
    [][ /\ (item = 0 /\ operations = << >>) =>
              subqueues = DRa_new(nbr_subqueues)
        /\ partial_inds(subqueues) = subqueue_inds
        /\ EnqStep => subqueues' = DRa_enqueue(subqueues, inds', NumEnqueued)
        /\ DeqStep =>
              /\ subqueues' = DRa_dequeue(subqueues, inds').ps
              /\ DRa_dequeue(subqueues, inds').ret
                   = DChoiceQueue_dequeue(subqueues, inds').ret
              /\ DRa_dequeue(subqueues, inds').ret = None
                   <=> QueueItems(subqueues') = QueueItems(subqueues) ]_vars

\* the end of a run of analyze_simple, which takes either queue: prefilled,
\* scripted enqueues and dequeues, an item served out of order and an empty
\* return
C29_Witness ==
    /\ driver = "simple" /\ Len(operations) = n_ops /\ prefill >= 1
    /\ NumEnqOps >= 1 /\ Len(rank_errors) >= 3
    /\ \E k \in DOMAIN rank_errors : rank_errors[k] >= 1
    /\ SumHeads < Len(rank_errors)
    /\ nbr_subqueues = 2 /\ d = 2

\* ------------------------------------------------------------------------
\* C30: what analyze_distributions scores.  The operations argument is
\* operations[1..n_ops]; the script analyze_extra replays is that argument
\* followed by extra_ops enqueues and then extra_ops dequeues, with extra_ops
\* drawn from 0..nbr_subqueues-1 (lines 21-28).
\* ------------------------------------------------------------------------
ScriptedEnqueues ==
    Cardinality({i \in DOMAIN operations : i <= n_ops /\ operations[i]})

ScriptedDequeues ==
    Cardinality({i \in DOMAIN operations : i <= n_ops /\ ~operations[i]})

\* C30 as stated: the rank-error vector returned has one entry per dequeue of
\* the operations argument, and the sub-queues' enqueue and dequeue counters
\* the counts are taken from are those of prefill plus the argument alone
C30_ScoresExactlyTheScript ==
    distributions # << >> =>
        /\ Len(distributions[1].rank_errors) = ScriptedDequeues
        /\ sum_seq(subqueue_enqueue_counts(subqueues)) = prefill + ScriptedEnqueues
        /\ sum_seq(subqueue_dequeue_counts(subqueues)) <= ScriptedDequeues

\* C30: analyze_distributions scores the operations argument extended by
\* extra_ops enqueues and then extra_ops dequeues.  The rank-error vector has
\* one entry per dequeue of the argument plus extra_ops; the enqueue counters
\* add up to prefill plus the enqueues of the argument plus extra_ops; the
\* dequeue counters add up to the number of dequeues that returned an item;
\* the two count vectors returned are computed from those counters.  With
\* extra_ops = 0 (always so with one sub-queue) that is the argument alone.
C30_ScoresTheExtendedScript ==
    distributions # << >> =>
        /\ extra_ops \in 0..(nbr_subqueues - 1)
        /\ Len(operations) = n_ops + 2 * extra_ops
        /\ \A i \in DOMAIN operations :
              i > n_ops => (operations[i] <=> i <= n_ops + extra_ops)
        /\ Len(distributions[1].rank_errors) = ScriptedDequeues + extra_ops
        /\ Len(distributions[1].partial_deq_diff) = ScriptedDequeues + extra_ops
        /\ sum_seq(subqueue_enqueue_counts(subqueues))
             = prefill + ScriptedEnqueues + extra_ops
        /\ sum_seq(subqueue_dequeue_counts(subqueues)) = Cardinality(ItemTags)
        /\ Len(distributions[1].enq_deq_diffs) = Cardinality(ItemTags)
        /\ distributions[1].enqueue_normlized_counts
             = normalized_counts(subqueue_enqueue_counts(subqueues))
        /\ distributions[1].dequeue_normlized_counts
             = normalized_counts(subqueue_dequeue_counts(subqueues))
        /\ extra_ops = 0 => C30_ScoresExactlyTheScript

\* analyze_distributions has returned after a script with an enqueue and a
\* dequeue, one extra enqueue and one extra dequeue, and an empty return
C30_Witness ==
    /\ distributions # << >>
    /\ extra_ops = 1 /\ n_ops = 2
    /\ ScriptedEnqueues = 1 /\ ScriptedDequeues = 1
    /\ Len(distributions[1].rank_errors) = 2
    /\ Cardinality(ItemTags) < Len(error_tags)

\* ------------------------------------------------------------------------
\* C31: the front of the reference queue is alive.  In every state reached
\* by enqueue and relaxed_dequeue calls, a non-empty deque does not begin
\* with an entry marked false, so the front-match branch of relaxed_dequeue
\* (line 165) only ever matches an item that is still in the queue.
\* ------------------------------------------------------------------------
C31_FrontIsAlive ==
    strict_queue.deque # << >> => Head(strict_queue.deque)[2]

\* item 1 was dequeued behind item 0 and marked; the dequeue of item 0 then
\* matched the front and popped both, leaving item 2 alive at the front
C31_Witness ==
    /\ driver = "tracker" /\ fatal = "none"
    /\ Len(error_tags) = 2
    /\ error_tags[1].enq_nbr = 1 /\ error_tags[1].rank_error = 1
    /\ error_tags[2].enq_nbr = 0 /\ error_tags[2].rank_error = 0
    /\ strict_queue.deque # << >>
    /\ Head(strict_queue.deque) = << 2, TRUE >>
    /\ strict_queue.len = Len(strict_queue.deque)

=============================================================================
